---- MODULE Spec2Model ----
(***************************************************************************)
(* Model of src/chart.js: the CarouselController day-carousel state        *)
(* machine (constructor, start, fetchData, handleData, updateChart,        *)
(* updateUI, navigatePrev/Next/To, fetchDayData, startPolling) driving     *)
(* the data held by TrahnChart.setData.                                    *)
(*                                                                         *)
(* Day keys are the integers 1..MaxDays (calendar days in ascending        *)
(* order); NoDay is JavaScript's undefined used as a key.  A series (the   *)
(* prices array, or the trades array, of one JSON payload) is identified   *)
(* by the integer Ser(day, file): of day `day`, read from the per-day file *)
(* ./data/<day>.json (DayFile) or from ./data/current.json (CurrentFile).  *)
(* EmptySeries is the array [], Absent a field the payload does not carry. *)
(* Indices are 0-based as in the source.                                   *)
(*                                                                         *)
(* The TrahnChart object itself is the variable view, with the canvas and  *)
(* the tooltip it paints: ChartSpec runs setData and the resize listener   *)
(* on series of records with numeric fields, HoverSpec the pointer         *)
(* listeners on a view that holds a series, NiceSpec calculateNiceStep.    *)
(* Numbers are exact rationals extended with Infinity and NaN.             *)
(***************************************************************************)
EXTENDS Integers, Sequences, FiniteSets, TLC

\* ------------------------------------------------------------------ bounds
\* Days the data source has published.
MaxDays == 2
\* Requests in flight plus retry timers pending, at any one time.
MaxPending == 2
\* Price points of one series handed to setData.
MaxPoints == 2
\* Trades of one array handed to setData.
MaxTrades == 2
\* Largest range calculateNiceStep is called with, and largest decimal
\* exponent of a step.
MaxRange == 60
MaxExp == 3

Days == 1..MaxDays
NoDay == 0
DayKeys == Days \cup {NoDay}

Absent == -1
EmptySeries == 0
DayFile == 0
CurrentFile == 1
Ser(day, file) == day * 10 + file

NoEntry == [prices |-> Absent, trades |-> Absent]

VARIABLES
    availableDays,     \* this.availableDays
    currentDayIndex,   \* this.currentDayIndex
    currentDay,        \* this.currentDay (NoDay for null)
    isLive,            \* this.isLive
    dayCache,          \* this.dayCache: day key -> entry, NoEntry when the key is unset
    chart,             \* which wire series this.chart.priceData / this.chart.trades
                       \* were built from by the last setData
    loading,           \* the loading indicator is shown
    connectionStatus,  \* class of the connection-status element
    startPc,           \* start(): "idle" before the call, "await" while it awaits its
                       \* fetchData, "done" after startPolling
    pollInterval,      \* this.pollInterval: TRUE once setInterval is installed
    fetchInFlight,     \* fetchData calls awaiting their response
    retryTimers,       \* pending setTimeout(() => this.fetchData(), retryIntervalMs)
    dayFetches,        \* <<index, day>> -> navigateTo(index) calls suspended in
                       \* fetchDayData(day)
    lastOp,            \* history: the operation that produced this state, with its
                       \* index argument or whether it issued a fetch
                       \* (a call that returns at once with no effect apart);
                       \* for updateChart, the two arrays it was called with
    view,              \* the TrahnChart object: priceData, trades, the bounds,
                       \* baselinePrice, width and height
    canvas,            \* what the last drawing pass painted
    tooltip,           \* the tooltip element: visible or not, and its content
    niceStep           \* the last call of calculateNiceStep with its result

progVars == <<availableDays, currentDayIndex, currentDay, isLive, dayCache, chart,
              loading, connectionStatus, startPc, pollInterval, fetchInFlight,
              retryTimers, dayFetches>>
viewVars == <<view, canvas, tooltip, niceStep>>
vars == <<availableDays, currentDayIndex, currentDay, isLive, dayCache, chart,
          loading, connectionStatus, startPc, pollInterval, fetchInFlight,
          retryTimers, dayFetches, lastOp, view, canvas, tooltip, niceStep>>

\* ------------------------------------------------------------ data source
\* Lists the data source publishes: the history 1..n, for every n (a later
\* snapshot may carry a longer or a shorter list).
DayLists == {[i \in 1..n |-> i] : n \in 1..MaxDays}

Last(seq) == seq[Len(seq)]

InSeq(seq, d) == \E i \in DOMAIN seq : seq[i] = d

\* Bodies of current.json that parse.  availableDays may be missing (the
\* backend then names its first day only); when present its last entry is
\* the live day, or currentDay is the next day, which the list does not hold
\* yet.  prices may be missing, and trades may be missing.
SnapshotPayloads ==
    {[availableDays |-> l, currentDay |-> c, prices |-> p, trades |-> t] :
        l \in DayLists \cup {<<>>}, c \in Days,
        p \in {Absent} \cup {Ser(d, CurrentFile) : d \in Days},
        t \in {Absent} \cup {Ser(d, CurrentFile) : d \in Days}}

WellFormed(data) ==
    /\ IF data.availableDays = <<>> THEN data.currentDay = 1
       ELSE \/ data.currentDay = Last(data.availableDays)
            \/ data.currentDay = Last(data.availableDays) + 1
    /\ data.prices \in {Absent, Ser(data.currentDay, CurrentFile)}
    /\ data.trades \in {Absent, data.prices}

Snapshots == {data \in SnapshotPayloads : WellFormed(data)}

\* Body of ./data/<day>.json: the archived series of the day.
DayPayloads(day) == {[prices |-> Ser(day, DayFile), trades |-> Ser(day, DayFile)]}

\* Ways a fetch of current.json fails: fetch rejects, !response.ok,
\* response.json() rejects, or the body is the JSON value null.
FailCauses == {"network", "status", "parse", "null"}

\* ---------------------------------------------------------------- helpers
\* x || []
OrEmpty(x) == IF x = Absent THEN EmptySeries ELSE x

\* this.availableDays[index]
DayAt(days, index) == IF index + 1 \in DOMAIN days THEN days[index + 1] ELSE NoDay

\* Array.prototype.indexOf
IndexOf(days, d) ==
    IF InSeq(days, d) THEN (CHOOSE i \in DOMAIN days :
                                days[i] = d /\ \A j \in 1..(i - 1) : days[j] # d) - 1
    ELSE -1

\* History record: the operation, and its index argument (navigateTo) or
\* whether it issued a fetch of current.json (1) or not (0).
Op(op, arg) == [op |-> op, arg |-> arg]

\* Index arguments navigateTo is called with (one below the range, the
\* range, one above it), and the suspended calls.
Indices == (0 - 1)..Len(availableDays)
NavKeys == (0..MaxDays) \X DayKeys

\* How many navigateTo calls are suspended: one pair <<k, n>> for the n-th
\* call suspended under key k.
NavInFlight ==
    Cardinality({p \in NavKeys \X (1..MaxPending) : p[2] <= dayFetches[p[1]]})

Pending == fetchInFlight + retryTimers + NavInFlight

\* ------------------------------------------------------------- TrahnChart
\* setData(priceData, trades): the series the view holds and draws.
SetData(priceData, trades) == [priceData |-> priceData, trades |-> trades]

\* ------------------------------------------------------ JavaScript numbers
\* A number is <<n, d>>: the rational n/d when d > 0, Infinity and -Infinity
\* as <<1, 0>> and <<-1, 0>>, NaN as <<0, 0>>.  A field of a record holds an
\* integer, or Absent for undefined.
NaN == <<0, 0>>
Num(i) == <<i, 1>>

Sgn(i) == IF i > 0 THEN 1 ELSE IF i < 0 THEN 0 - 1 ELSE 0
AbsInt(i) == IF i < 0 THEN 0 - i ELSE i

RECURSIVE Gcd(_, _)
Gcd(a, b) == IF b = 0 THEN a ELSE Gcd(b, a % b)

\* n/d in lowest terms with a positive denominator; n/0 is +-Infinity or NaN.
Norm(n, d) ==
    IF d = 0 THEN <<Sgn(n), 0>>
    ELSE LET g == Gcd(AbsInt(n), AbsInt(d)) IN <<(Sgn(d) * n) \div g, AbsInt(d) \div g>>

IsFinite(a) == a[2] # 0

\* a + b, a - b, a * b, a / b
NumAdd(a, b) ==
    IF a[2] = 0 /\ b[2] = 0 THEN (IF a = b THEN a ELSE NaN)
    ELSE Norm(a[1] * b[2] + b[1] * a[2], a[2] * b[2])
NumNeg(a) == <<0 - a[1], a[2]>>
NumSub(a, b) == NumAdd(a, NumNeg(b))
NumMul(a, b) == Norm(a[1] * b[1], a[2] * b[2])
NumDiv(a, b) == Norm(a[1] * b[2], a[2] * b[1])

\* a < b, a <= b, a === b on numbers: every comparison with NaN is false.
NumLt(a, b) ==
    /\ a # NaN /\ b # NaN
    /\ IF IsFinite(a) /\ IsFinite(b) THEN a[1] * b[2] < b[1] * a[2]
       ELSE a # b /\ (a = <<0 - 1, 0>> \/ b = <<1, 0>>)
NumEq(a, b) == a # NaN /\ b # NaN /\ a = b
NumLe(a, b) == NumLt(a, b) \/ NumEq(a, b)

\* Math.abs
MathAbs(a) == <<AbsInt(a[1]), a[2]>>

\* ToNumber of a field: undefined converts to NaN.
ToNumber(v) == IF v = Absent THEN NaN ELSE Num(v)

\* a || b on fields: undefined and 0 are falsy.
Or(a, b) == IF a # Absent /\ a # 0 THEN a ELSE b

\* x || y on numbers: 0 and NaN are falsy.
NumOr(x, y) == IF x = NaN \/ x = Num(0) THEN y ELSE x

\* Math.min(...vals), Math.max(...vals) of a non-empty array of fields.
MathMin(vals) ==
    IF \E i \in DOMAIN vals : vals[i] = Absent THEN NaN
    ELSE Num(CHOOSE m \in {vals[i] : i \in DOMAIN vals} :
                 \A i \in DOMAIN vals : m <= vals[i])
MathMax(vals) ==
    IF \E i \in DOMAIN vals : vals[i] = Absent THEN NaN
    ELSE Num(CHOOSE m \in {vals[i] : i \in DOMAIN vals} :
                 \A i \in DOMAIN vals : m >= vals[i])

\* -------------------------------------------------- TrahnChart, the view
\* this.padding
PaddingTop == 20
PaddingRight == 80
PaddingBottom == 40
PaddingLeft == 20

\* Sizes getBoundingClientRect reports for the canvas: <<width, height>>.
CanvasSizes == {<<300, 280>>, <<400, 170>>}
InitialCanvas == <<300, 280>>

\* setupCanvas: this.chartWidth, this.chartHeight
ChartWidth(v) == v.width - PaddingLeft - PaddingRight
ChartHeight(v) == v.height - PaddingTop - PaddingBottom

\* d.p || d.price and d.t || d.timestamp of a price point or a trade.
PointPrice(d) == Or(d.p, d.price)
PointTime(d) == Or(d.t, d.timestamp)

\* priceToY, timeToX, xToTime, yToPrice on numbers.
PriceToY(v, price) ==
    LET range == NumSub(v.maxPrice, v.minPrice)
        normalized == NumDiv(NumSub(price, v.minPrice), range)
    IN  NumAdd(Num(PaddingTop), NumMul(Num(ChartHeight(v)), NumSub(Num(1), normalized)))

TimeToX(v, timestamp) ==
    LET range == NumSub(v.maxTime, v.minTime)
        normalized == NumDiv(NumSub(timestamp, v.minTime), range)
    IN  NumAdd(Num(PaddingLeft), NumMul(Num(ChartWidth(v)), normalized))

XToTime(v, x) ==
    LET normalized == NumDiv(NumSub(x, Num(PaddingLeft)), Num(ChartWidth(v)))
    IN  NumAdd(v.minTime, NumMul(normalized, NumSub(v.maxTime, v.minTime)))

YToPrice(v, y) ==
    LET normalized == NumSub(Num(1), NumDiv(NumSub(y, Num(PaddingTop)), Num(ChartHeight(v))))
    IN  NumAdd(v.minPrice, NumMul(normalized, NumSub(v.maxPrice, v.minPrice)))

\* setData, "Add 5% padding to price range": (max - min) * 0.05 || 10
PricePadding(rawMin, rawMax) ==
    NumOr(NumMul(NumSub(rawMax, rawMin), <<1, 20>>), Num(10))

\* setData, "Set baseline as first price": prices[0]
Baseline(v, prices) == prices[1]

\* setData, the fields of the view after the call.
SetDataView(v, priceData, trades) ==
    IF Len(priceData) = 0
    THEN [v EXCEPT !.priceData = priceData, !.trades = trades]
    ELSE LET prices == [i \in DOMAIN priceData |-> PointPrice(priceData[i])]
             times == [i \in DOMAIN priceData |-> PointTime(priceData[i])]
             pricePadding == PricePadding(MathMin(prices), MathMax(prices))
         IN  [v EXCEPT !.priceData = priceData,
                       !.trades = trades,
                       !.minPrice = NumSub(MathMin(prices), pricePadding),
                       !.maxPrice = NumAdd(MathMax(prices), pricePadding),
                       !.minTime = MathMin(times),
                       !.maxTime = MathMax(times),
                       !.baselinePrice = Baseline(v, prices)]

\* drawCurrentPrice: the colour of the current-price tag.
DrawCurrentPrice(v) ==
    IF Len(v.priceData) = 0 THEN "none"
    ELSE LET lastPoint == v.priceData[Len(v.priceData)]
             price == PointPrice(lastPoint)
             isUp == NumLe(ToNumber(v.baselinePrice), ToNumber(price))
         IN  IF isUp THEN "green" ELSE "red"

\* The area fill of a pass that paints none.
NoFill == [paths |-> 0, clips |-> 0, baselineY |-> NaN, y0 |-> 0, y1 |-> 0]

\* drawGradientFill: with two points or more, one closed path from the
\* baseline along the curve and back, no clip, filled once with one linear
\* gradient that runs from y0 = padding.top to y1 = height - padding.bottom.
DrawGradientFill(v) ==
    IF Len(v.priceData) < 2 THEN NoFill
    ELSE [paths |-> 1, clips |-> 0,
          baselineY |-> PriceToY(v, ToNumber(v.baselinePrice)),
          y0 |-> PaddingTop, y1 |-> v.height - PaddingBottom]

\* The colour stops of that gradient: greenFill at 0, transparent at 0.5,
\* redFill at 1; the tint the gradient gives the pixel row y.
GradientTint(fill, y) ==
    LET offset == NumDiv(NumSub(y, Num(fill.y0)), Num(fill.y1 - fill.y0))
    IN  IF NumLt(offset, <<1, 2>>) THEN "green"
        ELSE IF NumLt(<<1, 2>>, offset) THEN "red"
        ELSE "transparent"

\* drawEmpty: the "No data for this day" text only.
DrawEmpty == [render |-> "empty", tag |-> "none", fill |-> NoFill]

\* Variant of draw without the test for an empty series.
DrawIsEmptyNever(v) == FALSE

\* draw, the test for an empty series.
DrawIsEmpty(v) == Len(v.priceData) = 0

\* draw: the layers painted for the data the view holds.
Draw(v) ==
    IF DrawIsEmpty(v) THEN DrawEmpty
    ELSE [render |-> "series", tag |-> DrawCurrentPrice(v), fill |-> DrawGradientFill(v)]

\* The view the constructor leaves: no bounds yet, an untouched canvas.
InitView ==
    [priceData |-> <<>>, trades |-> <<>>,
     minPrice |-> NaN, maxPrice |-> NaN, minTime |-> NaN, maxTime |-> NaN,
     baselinePrice |-> 0,
     width |-> InitialCanvas[1], height |-> InitialCanvas[2]]

InitCanvas == [render |-> "blank", tag |-> "none", fill |-> NoFill]

InitTooltip == [visible |-> FALSE, point |-> 0, trade |-> 0]

\* Math.pow(10, k) for an integer k.
RECURSIVE Pow10(_)
Pow10(k) == IF k = 0 THEN Num(1)
            ELSE IF k > 0 THEN NumMul(Num(10), Pow10(k - 1))
            ELSE NumDiv(Pow10(k + 1), Num(10))

\* Math.floor(Math.log10(x)) for a positive number x: the k with
\* 10^k <= x < 10^(k+1).
FloorLog10(x) ==
    CHOOSE k \in (0 - MaxExp)..MaxExp : NumLe(Pow10(k), x) /\ NumLt(x, Pow10(k + 1))

\* Variant of the thresholds that snaps to the nearest of 1, 2, 5, 10 with
\* strict comparisons.
NiceMantissaStrict(normalized) ==
    IF NumLt(normalized, <<3, 2>>) THEN 1
    ELSE IF NumLt(normalized, Num(3)) THEN 2
    ELSE IF NumLt(normalized, Num(7)) THEN 5
    ELSE 10

\* calculateNiceStep, the choice of niceStep.
NiceMantissa(normalized) ==
    IF NumLe(normalized, <<3, 2>>) THEN 1
    ELSE IF NumLe(normalized, Num(3)) THEN 2
    ELSE IF NumLe(normalized, Num(7)) THEN 5
    ELSE 10

\* calculateNiceStep(range, targetSteps) for range > 0 and targetSteps > 0.
CalculateNiceStep(range, targetSteps) ==
    LET roughStep == NumDiv(range, targetSteps)
        magnitude == Pow10(FloorLog10(roughStep))
        normalized == NumDiv(roughStep, magnitude)
    IN  NumMul(Num(NiceMantissa(normalized)), magnitude)

\* Arguments of calculateNiceStep: a positive range and a tick count.
NiceRanges == 1..MaxRange
NiceTargets == {1, 5}

\* A call of calculateNiceStep, as drawGrid and drawYAxis make it.
CalculateNiceStepCall(range, targetSteps) ==
    /\ niceStep' = [range |-> range, targetSteps |-> targetSteps,
                    step |-> CalculateNiceStep(Num(range), Num(targetSteps))]
    /\ lastOp' = Op("calculateNiceStep", 0)
    /\ UNCHANGED <<view, canvas, tooltip>>
    /\ UNCHANGED progVars

\* Records on the wire and in the view: a price point carries t or
\* timestamp and p or price, a trade t or timestamp and price (side and
\* usdValue only colour and label a marker and are left out).
AbbrevPoint(t, p) == [t |-> t, timestamp |-> Absent, p |-> p, price |-> Absent]
FullPoint(t, p) == [t |-> Absent, timestamp |-> t, p |-> Absent, price |-> p]
AbbrevTrade(t, p) == [t |-> t, timestamp |-> Absent, price |-> p]
FullTrade(t, p) == [t |-> Absent, timestamp |-> t, price |-> p]

\* Prices the data source sends, and the timestamps (ms) of its samples: one
\* every TimeSteps from a start time, a step of 0 giving points that share
\* one timestamp.
PriceValues == {0, 100, 120}
TimeStarts == {0, 100}
TimeSteps == {0, 100}
SampleTimes == {[i \in 1..n |-> start + (i - 1) * step] :
                   n \in 1..MaxPoints, start \in TimeStarts, step \in TimeSteps}

\* Series of 1..MaxPoints points, all named the abbreviated way or all the
\* full way.
Series ==
    UNION {{[i \in DOMAIN ts |-> AbbrevPoint(ts[i], ps[i])] :
               ps \in [DOMAIN ts -> PriceValues]} : ts \in SampleTimes}
    \cup
    UNION {{[i \in DOMAIN ts |-> FullPoint(ts[i], ps[i])] :
               ps \in [DOMAIN ts -> PriceValues]} : ts \in SampleTimes}

\* Trade arrays handed to setData together with a series.
TradeLists == {<<>>, <<FullTrade(100, 100)>>}

\* this.chart.setData(priceData, trades), draw included.
ChartSetData(priceData, trades) ==
    /\ view' = SetDataView(view, priceData, trades)
    /\ canvas' = IF Len(priceData) = 0 THEN DrawEmpty ELSE Draw(view')
    /\ lastOp' = Op("setData", Len(priceData))
    /\ UNCHANGED <<tooltip, niceStep>>
    /\ UNCHANGED progVars

\* The resize listener: setupCanvas, then draw.
Resize(size) ==
    /\ view' = [view EXCEPT !.width = size[1], !.height = size[2]]
    /\ canvas' = Draw(view')
    /\ lastOp' = Op("resize", 0)
    /\ UNCHANGED <<tooltip, niceStep>>
    /\ UNCHANGED progVars

\* updateChart, the two maps: each price point becomes {timestamp, price},
\* each trade {timestamp, price, side, usdValue}.
UpdateChartPrices(prices) ==
    [i \in DOMAIN prices |->
        FullPoint(Or(prices[i].t, prices[i].timestamp), Or(prices[i].p, prices[i].price))]
UpdateChartTrades(trades) ==
    [i \in DOMAIN trades |->
        FullTrade(Or(trades[i].t, trades[i].timestamp), trades[i].price)]

\* Trades on the wire: up to MaxTrades records, the timestamp and the price
\* of each under the abbreviated names or under the full names.
WireTradeTimes == {0, 100}
WireTradePrices == {0, 100}
WireTradeRecords ==
    {AbbrevPoint(t, p) : t \in WireTradeTimes, p \in WireTradePrices}
        \cup {FullPoint(t, p) : t \in WireTradeTimes, p \in WireTradePrices}
WireTrades == UNION {[1..n -> WireTradeRecords] : n \in 1..MaxTrades}

\* Arguments of updateChart: a series of the data source with no trades, or
\* one point with the trades of the data source.
WireCalls ==
    {<<prices, <<>>>> : prices \in Series \cup {<<>>}}
        \cup {<<<<FullPoint(100, 100)>>, trades>> : trades \in WireTrades}

\* updateChart(prices, trades) of the controller on this view; the history
\* keeps the two arrays of the call.
UpdateChartCall(prices, trades) ==
    /\ view' = SetDataView(view, UpdateChartPrices(prices), UpdateChartTrades(trades))
    /\ canvas' = IF Len(prices) = 0 THEN DrawEmpty ELSE Draw(view')
    /\ lastOp' = Op("updateChart", [prices |-> prices, trades |-> trades])
    /\ UNCHANGED <<tooltip, niceStep>>
    /\ UNCHANGED progVars

\* handleMouseMove, the test against the plot rectangle.
InsidePlot(v, x, y) ==
    ~(x < PaddingLeft \/ x > v.width - PaddingRight
        \/ y < PaddingTop \/ y > v.height - PaddingBottom)

\* handleMouseMove, the scan of priceData from index i on: nearest is the
\* index of nearestPoint (0 for null), nearestDistance starts as Infinity.
RECURSIVE ScanPoints(_, _, _, _, _)
ScanPoints(v, timestamp, i, nearest, nearestDistance) ==
    IF i > Len(v.priceData) THEN nearest
    ELSE LET t == PointTime(v.priceData[i])
             distance == MathAbs(NumSub(ToNumber(t), timestamp))
         IN  IF NumLt(distance, nearestDistance)
             THEN ScanPoints(v, timestamp, i + 1, i, distance)
             ELSE ScanPoints(v, timestamp, i + 1, nearest, nearestDistance)

NearestPoint(v, x) == ScanPoints(v, XToTime(v, Num(x)), 1, 0, <<1, 0>>)

\* handleMouseMove, Math.sqrt((x - tradeX) ** 2 + (y - tradeY) ** 2) < 15,
\* compared on the squares.
TradeInRadius(v, trade, x, y) ==
    LET tradeX == TimeToX(v, ToNumber(PointTime(trade)))
        tradeY == PriceToY(v, ToNumber(trade.price))
        dx == NumSub(Num(x), tradeX)
        dy == NumSub(Num(y), tradeY)
    IN  NumLt(NumAdd(NumMul(dx, dx), NumMul(dy, dy)), Num(15 * 15))

\* handleMouseMove, the scan of the trades that stops at the first match:
\* the index of nearestTrade (0 for null).
NearestTrade(v, x, y) ==
    IF \E i \in DOMAIN v.trades : TradeInRadius(v, v.trades[i], x, y)
    THEN CHOOSE i \in DOMAIN v.trades :
             /\ TradeInRadius(v, v.trades[i], x, y)
             /\ \A j \in 1..(i - 1) : ~TradeInRadius(v, v.trades[j], x, y)
    ELSE 0

\* showTooltip raises a TypeError at price.toLocaleString when point.p ||
\* point.price is undefined.
ShowTooltipThrows(point) == PointPrice(point) = Absent

\* handleMouseMove(e) with the pointer at <<x, y>> of the canvas.  The history
\* records the outcome: "hide", "show", "none" (no point found, the tooltip
\* is left as it was) or "throw".
HandleMouseMove(x, y) ==
    LET point == NearestPoint(view, x)
        trade == NearestTrade(view, x, y)
    IN  /\ IF ~InsidePlot(view, x, y)
           THEN /\ tooltip' = [tooltip EXCEPT !.visible = FALSE]
                /\ lastOp' = Op("mouseMoveHide", 0)
           ELSE IF point = 0
           THEN /\ tooltip' = tooltip
                /\ lastOp' = Op("mouseMoveNone", 0)
           ELSE IF ShowTooltipThrows(view.priceData[point])
           THEN /\ tooltip' = tooltip
                /\ lastOp' = Op("mouseMoveThrow", 0)
           ELSE /\ tooltip' = [visible |-> TRUE, point |-> point, trade |-> trade]
                /\ lastOp' = Op("mouseMoveShow", 0)
        /\ UNCHANGED <<view, canvas, niceStep>>
        /\ UNCHANGED progVars

\* The mouseleave listener: hideTooltip.
MouseLeave ==
    /\ tooltip' = [tooltip EXCEPT !.visible = FALSE]
    /\ lastOp' = Op("mouseLeave", 0)
    /\ UNCHANGED <<view, canvas, niceStep>>
    /\ UNCHANGED progVars

\* Trade arrays of up to MaxTrades trades around the first sample, and
\* pointer positions on the canvas.
TradeTimes == {0, 100, 110}
TradeRecords == {AbbrevTrade(t, 100) : t \in TradeTimes} \cup {FullTrade(t, 100) : t \in TradeTimes}
TradeArrays == UNION {[1..n -> TradeRecords] : n \in 0..MaxTrades}
PointerXs == {10, 20, 33, 35, 40, 220}
PointerYs == {10, 130, 230}

\* --------------------------------------------------- CarouselController
\* updateChart(prices, trades): maps the records of both arrays and hands the
\* results to setData; the view then holds the series built from `prices` and
\* from `trades`.
UpdateChart(prices, trades) == SetData(prices, trades)

\* updateUI, "Update status".
UpdateUIIsLive(index, days) == index = Len(days) - 1

\* handleData, "Update available days".
HandleDataDays(data) ==
    IF Len(data.availableDays) > 0 THEN data.availableDays
    ELSE IF data.currentDay # NoDay THEN <<data.currentDay>>
    ELSE availableDays

HandleDataCurrentDay(data) ==
    IF Len(data.availableDays) > 0 \/ data.currentDay # NoDay THEN data.currentDay
    ELSE currentDay

\* Variant that keeps the result of indexOf when the day is not in the list.
HandleDataIndexOfOnly(data) ==
    IF Len(data.availableDays) > 0
    THEN IndexOf(data.availableDays, data.currentDay)
    ELSE IF data.currentDay # NoDay THEN 0
    ELSE currentDayIndex

\* handleData, the assignments to this.currentDayIndex.
HandleDataIndex(data) ==
    IF Len(data.availableDays) > 0
    THEN IF IndexOf(data.availableDays, data.currentDay) = -1
         THEN Len(data.availableDays) - 1
         ELSE IndexOf(data.availableDays, data.currentDay)
    ELSE IF data.currentDay # NoDay THEN 0
    ELSE currentDayIndex

\* Variant of the cache write that keeps an entry the key already has.
HandleDataCacheKeepFirst(cache, data) ==
    IF data.prices # Absent /\ cache[data.currentDay] = NoEntry
    THEN [cache EXCEPT ![data.currentDay] =
              [prices |-> data.prices, trades |-> OrEmpty(data.trades)]]
    ELSE cache

\* handleData, "Cache current day data".
HandleDataCache(cache, data) ==
    IF data.prices # Absent
    THEN [cache EXCEPT ![data.currentDay] =
              [prices |-> data.prices, trades |-> OrEmpty(data.trades)]]
    ELSE cache

\* handleData, "If viewing the current (live) day, update chart".
HandleDataChart(data) ==
    IF HandleDataIndex(data) = Len(HandleDataDays(data)) - 1
    THEN UpdateChart(OrEmpty(data.prices), OrEmpty(data.trades))
    ELSE chart

HandleData(data) ==
    /\ loading' = FALSE
    /\ availableDays' = HandleDataDays(data)
    /\ currentDay' = HandleDataCurrentDay(data)
    /\ currentDayIndex' = HandleDataIndex(data)
    /\ dayCache' = HandleDataCache(dayCache, data)
    /\ chart' = HandleDataChart(data)
    /\ isLive' = UpdateUIIsLive(HandleDataIndex(data), HandleDataDays(data))

\* The await in start() resumes when its fetchData settles, then startPolling.
StartResumes ==
    /\ startPc' = IF startPc = "await" THEN "done" ELSE startPc
    /\ pollInterval' = (pollInterval \/ startPc = "await")

\* start(): showLoading(true), then fetchData up to its first await.
Start ==
    /\ startPc = "idle"
    /\ startPc' = "await"
    /\ loading' = TRUE
    /\ fetchInFlight' = fetchInFlight + 1
    /\ lastOp' = Op("start", 1)
    /\ UNCHANGED viewVars
    /\ UNCHANGED <<availableDays, currentDayIndex, currentDay, isLive, dayCache, chart,
                   connectionStatus, pollInterval, retryTimers, dayFetches>>

\* fetchData, the try block running to its end with the parsed body `data`.
FetchDataOk(data) ==
    /\ fetchInFlight > 0
    /\ fetchInFlight' = fetchInFlight - 1
    /\ HandleData(data)
    /\ connectionStatus' = "connected"
    /\ StartResumes
    /\ lastOp' = Op("fetchOk", 0)
    /\ UNCHANGED viewVars
    /\ UNCHANGED <<retryTimers, dayFetches>>

\* Variants of the catch block's scheduling: two timers, and none.
FetchDataRetryTwice(timers) == timers + 2

FetchDataRetryNone(timers) == timers

\* fetchData, what the catch block schedules.
FetchDataRetry(timers) == timers + 1

\* fetchData, the catch block.
FetchDataFail(cause) ==
    /\ fetchInFlight > 0
    /\ fetchInFlight' = fetchInFlight - 1
    /\ loading' = IF cause = "null" THEN FALSE ELSE loading
    /\ connectionStatus' = "waiting"
    /\ retryTimers' = FetchDataRetry(retryTimers)
    /\ StartResumes
    /\ lastOp' = Op("fetchFail", 0)
    /\ UNCHANGED viewVars
    /\ UNCHANGED <<availableDays, currentDayIndex, currentDay, isLive, dayCache, chart,
                   dayFetches>>

\* The retry timer fires: () => this.fetchData().
RetryFire ==
    /\ retryTimers > 0
    /\ retryTimers' = retryTimers - 1
    /\ fetchInFlight' = fetchInFlight + 1
    /\ lastOp' = Op("retryFire", 1)
    /\ UNCHANGED viewVars
    /\ UNCHANGED <<availableDays, currentDayIndex, currentDay, isLive, dayCache, chart,
                   loading, connectionStatus, startPc, pollInterval, dayFetches>>

\* startPolling, "Only poll if viewing live day".
PollFetches == isLive

\* One tick of the setInterval callback.
PollTick ==
    /\ pollInterval
    /\ PollFetches => Pending < MaxPending
    /\ fetchInFlight' = IF PollFetches THEN fetchInFlight + 1 ELSE fetchInFlight
    /\ lastOp' = Op("pollTick", IF PollFetches THEN 1 ELSE 0)
    /\ UNCHANGED viewVars
    /\ UNCHANGED <<availableDays, currentDayIndex, currentDay, isLive, dayCache, chart,
                   loading, connectionStatus, startPc, pollInterval, retryTimers,
                   dayFetches>>

\* Variant of the range check that lets index == length through.
InRangeOffByOne(index) == ~(index < 0 \/ index > Len(availableDays))

\* navigateTo, the range check.
InRange(index) == ~(index < 0 \/ index >= Len(availableDays))

\* Variant of the cache check that never finds an entry.
CacheHitNever(cache, day) == FALSE

\* navigateTo, "Check cache".
CacheHit(cache, day) == cache[day] # NoEntry

\* navigateTo(index), run to its end or to its await.
NavigateToBody(index) ==
    LET day == DayAt(availableDays, index) IN
    IF ~InRange(index)
    THEN /\ lastOp' = Op("navigateTo", index)
         /\ UNCHANGED progVars
         /\ UNCHANGED viewVars
    ELSE IF CacheHit(dayCache, day)
    THEN /\ currentDayIndex' = index
         /\ chart' = UpdateChart(dayCache[day].prices, dayCache[day].trades)
         /\ isLive' = UpdateUIIsLive(index, availableDays)
         /\ lastOp' = Op("navigateTo", index)
         /\ UNCHANGED viewVars
         /\ UNCHANGED <<availableDays, currentDay, dayCache, loading, connectionStatus,
                        startPc, pollInterval, fetchInFlight, retryTimers, dayFetches>>
    ELSE /\ Pending < MaxPending
         /\ currentDayIndex' = index
         /\ loading' = TRUE
         /\ dayFetches' = [dayFetches EXCEPT ![<<index, day>>] = @ + 1]
         /\ lastOp' = Op("navigateToAwait", index)
         /\ UNCHANGED viewVars
         /\ UNCHANGED <<availableDays, currentDay, isLive, dayCache, chart,
                        connectionStatus, startPc, pollInterval, fetchInFlight,
                        retryTimers>>

\* A click on an indicator dot, or any other direct call.
NavigateTo(index) == NavigateToBody(index)

NavigatePrev ==
    IF currentDayIndex > 0
    THEN NavigateToBody(currentDayIndex - 1)
    ELSE UNCHANGED vars

NavigateNext ==
    IF currentDayIndex < Len(availableDays) - 1
    THEN NavigateToBody(currentDayIndex + 1)
    ELSE UNCHANGED vars

\* fetchDayData, the cache write of the response.ok branch.
FetchDayDataCache(cache, day, data) ==
    [cache EXCEPT ![day] = [prices |-> OrEmpty(data.prices),
                            trades |-> OrEmpty(data.trades)]]

\* fetchDayData(day) settles with a parsed body, then navigateTo(index)
\* resumes and calls updateUI.
DayFetchOk(index, day, data) ==
    /\ dayFetches[<<index, day>>] > 0
    /\ dayFetches' = [dayFetches EXCEPT ![<<index, day>>] = @ - 1]
    /\ dayCache' = FetchDayDataCache(dayCache, day, data)
    /\ chart' = UpdateChart(OrEmpty(data.prices), OrEmpty(data.trades))
    /\ loading' = FALSE
    /\ isLive' = UpdateUIIsLive(currentDayIndex, availableDays)
    /\ lastOp' = Op("dayFetchOk", index)
    /\ UNCHANGED viewVars
    /\ UNCHANGED <<availableDays, currentDayIndex, currentDay, connectionStatus,
                   startPc, pollInterval, fetchInFlight, retryTimers>>

\* Variant of the no-data branches that records the day as an empty day.
FetchDayDataNoDataCacheEmpty(cache, day) ==
    [cache EXCEPT ![day] = [prices |-> EmptySeries, trades |-> EmptySeries]]

\* fetchDayData, the else branch and the catch block: neither assigns
\* this.dayCache[day].
FetchDayDataNoDataCache(cache, day) == cache

\* fetchDayData(day) settles without data: !response.ok ("notfound"), or the
\* catch block ("error"); then navigateTo(index) resumes and calls updateUI.
DayFetchNoData(index, day, how) ==
    /\ dayFetches[<<index, day>>] > 0
    /\ dayFetches' = [dayFetches EXCEPT ![<<index, day>>] = @ - 1]
    /\ dayCache' = FetchDayDataNoDataCache(dayCache, day)
    /\ chart' = SetData(EmptySeries, EmptySeries)
    /\ loading' = FALSE
    /\ isLive' = UpdateUIIsLive(currentDayIndex, availableDays)
    /\ lastOp' = Op("dayFetchNoData", index)
    /\ UNCHANGED viewVars
    /\ UNCHANGED <<availableDays, currentDayIndex, currentDay,
                   connectionStatus, startPc, pollInterval, fetchInFlight, retryTimers>>

\* The state the constructor leaves.
Init ==
    /\ availableDays = <<>>
    /\ currentDayIndex = 0
    /\ currentDay = NoDay
    /\ isLive = FALSE
    /\ dayCache = [d \in DayKeys |-> NoEntry]
    /\ chart = SetData(EmptySeries, EmptySeries)
    /\ loading = FALSE
    /\ connectionStatus = "initial"
    /\ startPc = "idle"
    /\ pollInterval = FALSE
    /\ fetchInFlight = 0
    /\ retryTimers = 0
    /\ dayFetches = [k \in NavKeys |-> 0]
    /\ lastOp = Op("constructor", 0)
    /\ view = InitView
    /\ canvas = InitCanvas
    /\ tooltip = InitTooltip
    /\ niceStep = [range |-> 0, targetSteps |-> 0, step |-> NaN]

Next ==
    \/ Start
    \/ \E data \in Snapshots : FetchDataOk(data)
    \/ \E cause \in FailCauses : FetchDataFail(cause)
    \/ RetryFire
    \/ PollTick
    \/ \E index \in Indices : NavigateTo(index)
    \/ NavigatePrev
    \/ NavigateNext
    \/ \E k \in NavKeys : \E data \in DayPayloads(k[2]) : DayFetchOk(k[1], k[2], data)
    \/ \E k \in NavKeys : \E how \in {"notfound", "error"} : DayFetchNoData(k[1], k[2], how)

Spec == Init /\ [][Next]_vars

\* A fetch of current.json in flight settles, one way or the other.
FetchSettles ==
    \/ \E data \in Snapshots : FetchDataOk(data)
    \/ \E cause \in FailCauses : FetchDataFail(cause)

\* Timers that are pending fire, and requests that are in flight settle.
FairSpec == Spec /\ WF_vars(RetryFire) /\ WF_vars(FetchSettles)

\* The view on its own: any caller's setData calls, and resizes.
ChartNext ==
    \/ \E priceData \in Series \cup {<<>>} : \E trades \in TradeLists :
           ChartSetData(priceData, trades)
    \/ \E size \in CanvasSizes : Resize(size)

ChartSpec == Init /\ [][ChartNext]_vars

\* updateChart feeding the view with the records of the wire.
ShimNext == \E call \in WireCalls : UpdateChartCall(call[1], call[2])

ShimSpec == Init /\ [][ShimNext]_vars

\* calculateNiceStep on its own.
NiceNext == \E range \in NiceRanges : \E targetSteps \in NiceTargets :
                CalculateNiceStepCall(range, targetSteps)

NiceSpec == Init /\ [][NiceNext]_vars

\* The view after one setData, under the pointer.
HoverInit ==
    /\ \E priceData \in Series : \E trades \in TradeArrays :
           /\ view = SetDataView(InitView, priceData, trades)
           /\ canvas = Draw(SetDataView(InitView, priceData, trades))
           /\ lastOp = Op("setData", Len(priceData))
    /\ tooltip = InitTooltip
    /\ niceStep = [range |-> 0, targetSteps |-> 0, step |-> NaN]
    /\ availableDays = <<>>
    /\ currentDayIndex = 0
    /\ currentDay = NoDay
    /\ isLive = FALSE
    /\ dayCache = [d \in DayKeys |-> NoEntry]
    /\ chart = SetData(EmptySeries, EmptySeries)
    /\ loading = FALSE
    /\ connectionStatus = "initial"
    /\ startPc = "idle"
    /\ pollInterval = FALSE
    /\ fetchInFlight = 0
    /\ retryTimers = 0
    /\ dayFetches = [k \in NavKeys |-> 0]

HoverNext ==
    \/ \E x \in PointerXs : \E y \in PointerYs : HandleMouseMove(x, y)
    \/ MouseLeave

HoverSpec == HoverInit /\ [][HoverNext]_vars

\* ------------------------------------------------------------------ claims
LastIndex == Len(availableDays) - 1

ViewingLive == currentDayIndex = LastIndex

ViewingHistory == Len(availableDays) > 0 /\ currentDayIndex < LastIndex

NavCallOps == {"navigateTo", "navigateToAwait"}

NavDoneOps == {"navigateTo", "dayFetchOk", "dayFetchNoData"}

\* C1: in every reachable state isLive is true exactly when
\* currentDayIndex == availableDays.length - 1.
C1_IsLiveDerived == isLive = (currentDayIndex = Len(availableDays) - 1)

\* C2: a poll tick issues a fetch of the snapshot only if the controller is
\* viewing the live day at the instant the tick fires.
C2_TickFetchesOnlyWhenLive ==
    (lastOp.op = "pollTick" /\ lastOp.arg = 1) => currentDayIndex = Len(availableDays) - 1

\* C3: a snapshot response handled while the controller is pointed at a
\* historical index changes neither currentDayIndex nor the displayed series.
C3_HistoryUndisturbed ==
    [][(lastOp'.op = "fetchOk" /\ ViewingHistory)
          => (currentDayIndex' = currentDayIndex /\ chart' = chart)]_vars

\* C4: when navigateTo(i) completes, isLive is true if i is the last index and
\* false if i is a lower valid index; and a poll tick that follows the
\* completion of a navigateTo to a lower index issues no fetch.
C4_NavigateSetsLive ==
    [][/\ (lastOp'.op \in NavDoneOps /\ lastOp'.arg \in 0..(Len(availableDays') - 1))
            => (isLive' <=> lastOp'.arg = Len(availableDays') - 1)
       /\ (lastOp.op \in NavDoneOps /\ lastOp.arg \in 0..(LastIndex - 1)
             /\ lastOp'.op = "pollTick")
            => lastOp'.arg = 0]_vars

\* C5: navigateTo(index) with a valid index whose day is cached issues no
\* request and displays the cached series; with a valid index whose day is not
\* cached it issues exactly one day fetch; a cache entry, once written, stays,
\* so after a successful day fetch of D every later navigateTo to D is a hit.
C5_CacheBackedNavigation ==
    [][/\ (lastOp'.op \in NavCallOps /\ lastOp'.arg \in 0..LastIndex) =>
            LET i == lastOp'.arg
                day == DayAt(availableDays, i) IN
            IF dayCache[day] # NoEntry
            THEN /\ fetchInFlight' = fetchInFlight
                 /\ dayFetches' = dayFetches
                 /\ chart' = [priceData |-> dayCache[day].prices,
                              trades |-> dayCache[day].trades]
            ELSE /\ fetchInFlight' = fetchInFlight
                 /\ NavInFlight' = NavInFlight + 1
                 /\ dayFetches'[<<i, day>>] = dayFetches[<<i, day>>] + 1
       /\ \A d \in DayKeys : dayCache[d] # NoEntry => dayCache'[d] # NoEntry
       /\ lastOp'.op = "dayFetchOk" =>
            \A k \in NavKeys : dayFetches'[k] < dayFetches[k] => dayCache'[k[2]] # NoEntry
      ]_vars

\* A cached historical day served from the cache that a day fetch filled.
C5_Witness ==
    /\ lastOp = Op("navigateTo", 0)
    /\ Len(availableDays) = 2
    /\ dayCache[availableDays[1]].prices = Ser(availableDays[1], DayFile)
    /\ chart.priceData = Ser(availableDays[1], DayFile)
    /\ NavInFlight = 0

\* C6: navigateTo(index) with index < 0 or index >= availableDays.length
\* changes nothing and issues no fetch.
C6_OutOfRangeNoOp ==
    [][(/\ lastOp'.op \in NavCallOps
        /\ (lastOp'.arg < 0 \/ lastOp'.arg >= Len(availableDays)))
          => UNCHANGED <<currentDayIndex, isLive, availableDays, dayCache, chart, loading,
                         fetchInFlight, retryTimers, dayFetches>>]_vars

\* navigateTo(length) was called on a list that holds days.
C6_Witness ==
    /\ lastOp.op = "navigateTo"
    /\ Len(availableDays) > 0
    /\ lastOp.arg = Len(availableDays)

\* C7: a failed fetch of the snapshot sets the connection status to waiting,
\* schedules exactly one retry, and leaves currentDayIndex, availableDays,
\* isLive, the day cache and the displayed series unchanged.
C7_FailedFetch ==
    [][lastOp'.op = "fetchFail"
          => /\ connectionStatus' = "waiting"
             /\ retryTimers' = retryTimers + 1
             /\ UNCHANGED <<currentDayIndex, availableDays, isLive, dayCache, chart>>]_vars

\* A fetch failed after days had been loaded and the user moved to history.
C7_Witness ==
    /\ lastOp.op = "fetchFail"
    /\ connectionStatus = "waiting"
    /\ retryTimers = 1
    /\ ViewingHistory

LiveSeries(day) == {EmptySeries, Ser(day, CurrentFile)}

\* C8: every failed fetch of the snapshot is followed by another attempt with
\* no user action (also when the first fetch of start() failed and isLive is
\* false); and whenever the data source answers an attempt successfully the
\* status is connected and the live day's series is displayed.
C8_FailureRetried ==
    /\ (lastOp.op = "fetchFail") ~> (lastOp.op \in {"retryFire", "pollTick"} /\ lastOp.arg = 1)
    /\ [](lastOp.op = "fetchOk" =>
            /\ connectionStatus = "connected"
            /\ isLive /\ ViewingLive
            /\ chart.priceData \in LiveSeries(currentDay))

\* The first fetch failed, the retry fired with isLive still false.
C8_Witness ==
    /\ lastOp = Op("retryFire", 1)
    /\ availableDays = <<>>
    /\ ~isLive
    /\ connectionStatus = "waiting"

\* C9: a successful fetch of the snapshot whose payload carries prices makes
\* dayCache[currentDay] exactly that payload's prices and trades (trades
\* defaulting to empty), whatever the key held before, and modifies the entry
\* of no other key.
C9_LiveSlotOverwritten ==
    [][lastOp'.op = "fetchOk" =>
          \A data \in Snapshots :
              (data.prices # Absent /\ data.currentDay = currentDay' /\ FetchDataOk(data)) =>
                  /\ currentDay' = data.currentDay
                  /\ dayCache'[currentDay'] =
                         [prices |-> data.prices, trades |-> OrEmpty(data.trades)]
                  /\ \A d \in DayKeys \ {data.currentDay} : dayCache'[d] = dayCache[d]]_vars

\* The live slot holds a snapshot's prices with the trades defaulted to empty,
\* next to the entry of another day.
C9_Witness ==
    /\ lastOp.op = "fetchOk"
    /\ currentDay # NoDay
    /\ dayCache[currentDay] = [prices |-> Ser(currentDay, CurrentFile), trades |-> EmptySeries]
    /\ \E d \in Days \ {currentDay} : dayCache[d] # NoEntry

\* C10: a day fetch issued by navigateTo never writes the cache slot of the
\* live day (the last entry of availableDays, currentDay).
C10_DayFetchSparesLiveSlot ==
    [][lastOp'.op = "dayFetchOk"
          => /\ Len(availableDays) > 0
                  => dayCache'[Last(availableDays)] = dayCache[Last(availableDays)]
             /\ dayCache'[currentDay] = dayCache[currentDay]]_vars

\* C11: when the day fetch of a navigateTo to an uncached day returns
\* not-found or fails, the chart is set to the empty state, the loading
\* indicator is hidden, no retry is scheduled and no request is issued, the
\* connection status is not touched and no cache entry is written; a
\* navigateTo to the same day that follows finds no entry and fetches again.
C11_DayFetchFailure ==
    [][/\ lastOp'.op = "dayFetchNoData" =>
            /\ chart' = [priceData |-> EmptySeries, trades |-> EmptySeries]
            /\ loading' = FALSE
            /\ UNCHANGED <<retryTimers, fetchInFlight, connectionStatus, dayCache>>
            /\ NavInFlight' = NavInFlight - 1
       /\ (/\ lastOp.op = "dayFetchNoData"
           /\ lastOp'.op \in NavCallOps
           /\ lastOp'.arg = lastOp.arg
           /\ lastOp.arg \in 0..LastIndex) =>
            LET day == DayAt(availableDays, lastOp.arg) IN
            dayCache[day] = NoEntry =>
                /\ lastOp'.op = "navigateToAwait"
                /\ dayFetches'[<<lastOp.arg, day>>] = dayFetches[<<lastOp.arg, day>>] + 1
      ]_vars

\* The day fetch of a historical day settled without data while the
\* connection was up and the live day's series was cached and on display.
C11_Witness ==
    /\ lastOp = Op("dayFetchNoData", 0)
    /\ Len(availableDays) = 2
    /\ dayCache[availableDays[2]].prices = Ser(availableDays[2], CurrentFile)
    /\ chart = [priceData |-> EmptySeries, trades |-> EmptySeries]
    /\ dayCache[availableDays[1]] = NoEntry
    /\ ~loading
    /\ connectionStatus = "connected"
    /\ retryTimers = 0

\* C12 as stated: in every reachable state currentDayIndex lies within
\* [0, availableDays.length - 1].
C12_IndexInRange == currentDayIndex \in 0..(Len(availableDays) - 1)

\* C12 amended: whenever availableDays holds a day, currentDayIndex lies within
\* [0, availableDays.length - 1], after every navigateTo, navigatePrev,
\* navigateNext and snapshot response (one with a shorter list or with a
\* currentDay the list does not hold included); while availableDays is empty
\* currentDayIndex is 0.
C12_IndexInRangeWhenDays ==
    IF Len(availableDays) > 0
    THEN currentDayIndex \in 0..(Len(availableDays) - 1)
    ELSE currentDayIndex = 0

\* A snapshot brought a one-day list and a currentDay that list does not
\* hold, after day 2 had been an entry of the list and fetched through it.
C12_Witness ==
    /\ lastOp.op = "fetchOk"
    /\ Len(availableDays) = 1
    /\ currentDay = 2
    /\ ~InSeq(availableDays, currentDay)
    /\ dayCache[2].prices = Ser(2, DayFile)
    /\ currentDayIndex = 0

\* C13: setData with an empty price sequence paints the empty state whatever
\* the trades argument holds; every redraw on resize stays in the empty state,
\* and only a setData with a non-empty series leaves it.
C13_EmptyState ==
    [][/\ (lastOp'.op = "setData" /\ lastOp'.arg = 0) =>
            /\ view'.priceData = <<>>
            /\ canvas' = [render |-> "empty", tag |-> "none", fill |-> NoFill]
       /\ (lastOp'.op = "resize" /\ canvas.render = "empty") => canvas'.render = "empty"
       /\ (canvas.render = "empty" /\ canvas'.render # "empty") =>
            (lastOp'.op = "setData" /\ lastOp'.arg > 0)
      ]_vars

\* A resize redrew the empty state of a view that holds a trade and the
\* bounds of an earlier series.
C13_Witness ==
    /\ lastOp.op = "resize"
    /\ view.priceData = <<>>
    /\ Len(view.trades) > 0
    /\ IsFinite(view.maxPrice)
    /\ canvas.render = "empty"
    /\ view.width # InitialCanvas[1]

\* The price and the timestamp a record carries, under either name.
RecordPrice(d) == IF d.p # Absent THEN d.p ELSE d.price
RecordTime(d) == IF d.t # Absent THEN d.t ELSE d.timestamp

SeriesPrices(v) == {RecordPrice(v.priceData[i]) : i \in DOMAIN v.priceData}
LowestPrice(v) == CHOOSE m \in SeriesPrices(v) : \A q \in SeriesPrices(v) : m <= q
HighestPrice(v) == CHOOSE m \in SeriesPrices(v) : \A q \in SeriesPrices(v) : m >= q

AfterSetData == lastOp.op = "setData" /\ lastOp.arg > 0

\* C14: after every setData with a non-empty series maxPrice - minPrice is
\* strictly positive: the bounds lie 10 beyond the price on each side when all
\* prices are equal, and 5% of the raw range beyond the lowest and the highest
\* price otherwise; every price of the series maps strictly inside the
\* vertical extent of the plot.
C14_PriceBounds ==
    AfterSetData =>
        LET lo == LowestPrice(view)
            hi == HighestPrice(view)
            pad == IF lo = hi THEN Num(10) ELSE <<hi - lo, 20>>
        IN  /\ NumLt(Num(0), NumSub(view.maxPrice, view.minPrice))
            /\ view.minPrice = NumSub(Num(lo), pad)
            /\ view.maxPrice = NumAdd(Num(hi), pad)
            /\ \A q \in SeriesPrices(view) :
                   /\ NumLt(Num(PaddingTop), PriceToY(view, Num(q)))
                   /\ NumLt(PriceToY(view, Num(q)), Num(PaddingTop + ChartHeight(view)))

SeriesTimes(v) == {RecordTime(v.priceData[i]) : i \in DOMAIN v.priceData}

\* C15: after a setData with a series of one point, or of points that share
\* one timestamp, maxTime - minTime is not zero, and timeToX divides by no
\* zero for the points of the series and for the trades.
C15_TimeRangeGuarded ==
    (AfterSetData /\ Cardinality(SeriesTimes(view)) = 1) =>
        /\ NumSub(view.maxTime, view.minTime) # Num(0)
        /\ \A t \in SeriesTimes(view) : IsFinite(TimeToX(view, Num(t)))
        /\ \A i \in DOMAIN view.trades :
               IsFinite(TimeToX(view, Num(RecordTime(view.trades[i]))))

\* Prices, timestamps and pixel positions the mappings are applied to.
ProbePrices == {Num(0), Num(100), <<221, 2>>, Num(120)}
ProbeTimes == {Num(0), Num(100), Num(150), Num(200)}
ProbeXs == {Num(PaddingLeft), Num(75), Num(220)}
ProbeYs == {Num(PaddingTop), Num(75), Num(130)}

\* C16: for the bounds setData computes from a series with more than one
\* timestamp, yToPrice(priceToY(p)) = p and xToTime(timeToX(t)) = t, and
\* priceToY(yToPrice(y)) = y and timeToX(xToTime(x)) = x.
C16_RoundTrip ==
    (AfterSetData /\ Cardinality(SeriesTimes(view)) > 1) =>
        /\ \A p \in ProbePrices : NumEq(YToPrice(view, PriceToY(view, p)), p)
        /\ \A t \in ProbeTimes : NumEq(XToTime(view, TimeToX(view, t)), t)
        /\ \A y \in ProbeYs : NumEq(PriceToY(view, YToPrice(view, y)), y)
        /\ \A x \in ProbeXs : NumEq(TimeToX(view, XToTime(view, x)), x)

\* C17: after every setData with a non-empty series baselinePrice is the
\* price of the first point of that series, and the current-price tag is
\* green exactly when the price of the last point is >= the price of the
\* first, red otherwise.
C17_BaselineAndTag ==
    AfterSetData =>
        LET first == RecordPrice(view.priceData[1])
            last == RecordPrice(view.priceData[Len(view.priceData)])
        IN  /\ view.baselinePrice = first
            /\ canvas.tag = IF last >= first THEN "green" ELSE "red"

\* |timestamp - xToTime(x)| of the i-th point of the series.
TimeDistance(v, i, x) ==
    MathAbs(NumSub(Num(RecordTime(v.priceData[i])), XToTime(v, Num(x))))

\* The i-th point is the earliest of the points nearest in time to x.
IsNearestPoint(v, i, x) ==
    /\ i \in DOMAIN v.priceData
    /\ \A j \in DOMAIN v.priceData : NumLe(TimeDistance(v, i, x), TimeDistance(v, j, x))
    /\ \A j \in 1..(i - 1) : NumLt(TimeDistance(v, i, x), TimeDistance(v, j, x))

\* C18: a pointer move inside the plot rectangle over a non-empty series shows
\* the tooltip for the earliest of the points with the least |timestamp -
\* xToTime(x)|, which for a pointer on the pixel column of a plotted point is
\* a point with that timestamp; a move outside the rectangle hides the tooltip.
C18_NearestPoint ==
    [][\A x \in PointerXs : \A y \in PointerYs :
          HandleMouseMove(x, y) =>
              IF InsidePlot(view, x, y)
              THEN Len(view.priceData) > 0 =>
                       /\ tooltip'.visible
                       /\ IsNearestPoint(view, tooltip'.point, x)
                       /\ \A j \in DOMAIN view.priceData :
                              TimeToX(view, Num(RecordTime(view.priceData[j]))) = Num(x)
                                  => RecordTime(view.priceData[tooltip'.point])
                                         = RecordTime(view.priceData[j])
              ELSE ~tooltip'.visible]_vars

\* The trade's marker, mapped from the timestamp and price the record
\* carries, lies less than 15 pixels from <<x, y>>.
MarkerInRadius(v, trade, x, y) ==
    LET dx == NumSub(Num(x), TimeToX(v, Num(RecordTime(trade))))
        dy == NumSub(Num(y), PriceToY(v, Num(trade.price)))
    IN  NumLt(NumAdd(NumMul(dx, dx), NumMul(dy, dy)), Num(225))

\* C19: the trade a pointer move inside the plot rectangle attaches to the
\* tooltip is the first trade of the array whose marker lies less than 15
\* pixels from the pointer, and none when every marker is 15 pixels or more
\* away.
C19_FirstTradeInRadius ==
    [][\A x \in PointerXs : \A y \in PointerYs :
          (HandleMouseMove(x, y) /\ InsidePlot(view, x, y) /\ lastOp'.op = "mouseMoveShow") =>
              IF \E i \in DOMAIN view.trades : MarkerInRadius(view, view.trades[i], x, y)
              THEN /\ tooltip'.trade \in DOMAIN view.trades
                   /\ MarkerInRadius(view, view.trades[tooltip'.trade], x, y)
                   /\ \A j \in 1..(tooltip'.trade - 1) :
                          ~MarkerInRadius(view, view.trades[j], x, y)
              ELSE tooltip'.trade = 0]_vars

\* C20: calculateNiceStep(range, targetCount) returns m * 10^k with
\* k = floor(log10(range / targetCount)) and m = 1, 2, 5 or 10 as the
\* normalized step is <= 1.5, <= 3, <= 7 or larger; calculateNiceStep(47, 5)
\* is 10 and calculateNiceStep(4, 5) is 1; every result for a positive range
\* is 1, 2 or 5 times a power of ten.
C20_NiceStep ==
    lastOp.op = "calculateNiceStep" =>
        LET rough == Norm(niceStep.range, niceStep.targetSteps)
            step == niceStep.step
        IN  /\ \E k \in (0 - MaxExp)..MaxExp :
                   /\ NumLe(Pow10(k), rough) /\ NumLt(rough, Pow10(k + 1))
                   /\ \E m \in {1, 2, 5, 10} :
                          /\ step = NumMul(Num(m), Pow10(k))
                          /\ m = 1 <=> NumLe(rough, NumMul(<<3, 2>>, Pow10(k)))
                          /\ m = 2 <=> (/\ NumLt(NumMul(<<3, 2>>, Pow10(k)), rough)
                                        /\ NumLe(rough, NumMul(Num(3), Pow10(k))))
                          /\ m = 5 <=> (/\ NumLt(NumMul(Num(3), Pow10(k)), rough)
                                        /\ NumLe(rough, NumMul(Num(7), Pow10(k))))
            /\ (niceStep.range = 47 /\ niceStep.targetSteps = 5) => step = Num(10)
            /\ (niceStep.range = 4 /\ niceStep.targetSteps = 5) => step = Num(1)
            /\ \E j \in (0 - MaxExp)..(MaxExp + 1) : \E m \in {1, 2, 5} :
                   step = NumMul(Num(m), Pow10(j))

\* calculateNiceStep(4, 5): a rough step below 1 that snaps up to 10 * 0.1.
C20_Witness ==
    /\ lastOp.op = "calculateNiceStep"
    /\ niceStep.range = 4 /\ niceStep.targetSteps = 5
    /\ niceStep.step = Num(1)

\* C21: every price point and every trade updateChart hands to the view
\* carries the timestamp and the price of its wire record, under either
\* naming and for every value, 0 included.
C21_FieldShim ==
    lastOp.op = "updateChart" =>
        /\ Len(view.priceData) = Len(lastOp.arg.prices)
        /\ Len(view.trades) = Len(lastOp.arg.trades)
        /\ \A i \in DOMAIN lastOp.arg.prices :
               /\ view.priceData[i].timestamp = RecordTime(lastOp.arg.prices[i])
               /\ view.priceData[i].price = RecordPrice(lastOp.arg.prices[i])
        /\ \A i \in DOMAIN lastOp.arg.trades :
               /\ view.trades[i].timestamp = RecordTime(lastOp.arg.trades[i])
               /\ view.trades[i].price = RecordPrice(lastOp.arg.trades[i])

\* Pixel rows of the plot at which the tint of the area fill is sampled.
FillProbeYs == {Num(75), Num(130), Num(200)}

\* C22: wherever the area fill is painted, it is painted as two clipped
\* regions, and every filled pixel between the curve and the baseline has the
\* green tint when it lies above the baseline and the red tint when it lies
\* below, whatever the position of the baseline in the plot.
C22_FillSplitAtBaseline ==
    canvas.fill.paths > 0 =>
        /\ canvas.fill.clips = 2
        /\ \A i \in DOMAIN view.priceData, y \in FillProbeYs :
               LET curveY == PriceToY(view, ToNumber(PointPrice(view.priceData[i])))
                   baselineY == canvas.fill.baselineY
               IN  /\ (NumLe(curveY, y) /\ NumLt(y, baselineY)) =>
                          GradientTint(canvas.fill, y) = "green"
                   /\ (NumLt(baselineY, y) /\ NumLe(y, curveY)) =>
                          GradientTint(canvas.fill, y) = "red"

\* The series that belong to a day: its archived file, its live snapshot, or
\* the empty state.
SeriesOfDay(day) == {EmptySeries, Ser(day, DayFile), Ser(day, CurrentFile)}

\* C23: whenever no fetchData is awaiting its response and no navigateTo is
\* suspended in fetchDayData, the price series and the trades the chart holds
\* belong to availableDays[currentDayIndex].
C23_DisplayedDay ==
    (fetchInFlight = 0 /\ NavInFlight = 0 /\ DayAt(availableDays, currentDayIndex) # NoDay) =>
        /\ chart.priceData \in SeriesOfDay(DayAt(availableDays, currentDayIndex))
        /\ chart.trades \in SeriesOfDay(DayAt(availableDays, currentDayIndex))

\* C24: at most one retry timer of the failed-snapshot path is pending at
\* any time.
C24_SingleRetry == retryTimers <= 1

====
